---------------------------- MODULE Spec2Model ----------------------------
(***************************************************************************)
(* Greiner-Hormann polygon clipping as implemented in src/polyclip.py.     *)
(*                                                                         *)
(* The heap of Vertex objects is the sequence vtx (a vertex is its index,  *)
(* None is 0); the Polygon objects are the sequence first (a polygon is    *)
(* its index, the value is its anchor vertex).  Polygon 1 is Subject and   *)
(* polygon 2 is Clipper of clip_polygon; every later polygon is a          *)
(* `clipped` polygon created by phase three of Polygon.clip.               *)
(*                                                                         *)
(* Coordinates and alphas are Python floats in the source.  They are       *)
(* modelled as exact rationals [n, d] in lowest terms with d > 0: for the  *)
(* small integer inputs enumerated here every comparison the code makes    *)
(* (den == 0, us == 0, us == 1, 0 < us < 1, curr.alpha < vertex.alpha)     *)
(* has the same outcome on the floats as on the exact quotients.  The      *)
(* point lists hold floats (parse_polygon converts with float(), spoly and *)
(* cpoly are float literals), so `/` in intersect is a true division.      *)
(***************************************************************************)
EXTENDS Integers, Sequences, FiniteSets, TLC

VARIABLES
    subject,    \* clip_polygon argument: the subject point list
    clipper,    \* clip_polygon argument: the clipper point list
    operation,  \* clip_polygon argument: the operation name
    vtx,        \* heap of Vertex objects
    first,      \* Polygon.first of every Polygon object
    self,       \* Polygon.clip: the polygon clip is called on
    clip,       \* Polygon.clip: the polygon passed as clipper
    s_entry,    \* Polygon.clip: local s_entry
    c_entry,    \* Polygon.clip: local c_entry
    s,          \* Polygon.clip: loop variable s (phases one and two)
    c,          \* Polygon.clip: loop variable c (phases one and two)
    current,    \* Polygon.clip: local current (phase three)
    clipped,    \* Polygon.clip: local clipped (phase three)
    list,       \* Polygon.clip: local list, the value returned
    pc          \* position inside clip_polygon / Polygon.clip

vars == <<subject, clipper, operation, vtx, first, self, clip, s_entry,
          c_entry, s, c, current, clipped, list, pc>>

None == 0

-----------------------------------------------------------------------------
(* Exact rational arithmetic standing for the float operations.            *)

Abs(i) == IF i < 0 THEN -i ELSE i

RECURSIVE GCD(_, _)
GCD(a, b) == IF b = 0 THEN a ELSE GCD(b, a % b)

Rat(n, d) ==
    LET g   == GCD(Abs(n), Abs(d))
        sgn == IF d < 0 THEN -1 ELSE 1
    IN  [n |-> (sgn * n) \div g, d |-> (sgn * d) \div g]

Int2Rat(i) == [n |-> i, d |-> 1]
Zero == Int2Rat(0)
One == Int2Rat(1)

RAdd(a, b) == Rat(a.n * b.d + b.n * a.d, a.d * b.d)
RSub(a, b) == Rat(a.n * b.d - b.n * a.d, a.d * b.d)
RMul(a, b) == Rat(a.n * b.n, a.d * b.d)
RDiv(a, b) == Rat(a.n * b.d, a.d * b.n)
RLt(a, b) == a.n * b.d < b.n * a.d
RLe(a, b) == a.n * b.d <= b.n * a.d

-----------------------------------------------------------------------------
(* Vertex                                                                  *)

\* Vertex.__init__ called with a coordinate pair
Vertex(pt, alpha, intersect, entry, checked) ==
    [x |-> pt.x, y |-> pt.y, next |-> None, prev |-> None,
     neighbour |-> None, entry |-> entry, alpha |-> alpha,
     intersect |-> intersect, checked |-> checked]

\* Vertex.__init__ called with a Vertex: only the coordinates are copied
VertexCopy(v) == Vertex([x |-> v.x, y |-> v.y], Zero, FALSE, TRUE, FALSE)

\* Vertex(p) for p one of the integer points of an input list
VertexOfPoint(p) ==
    Vertex([x |-> Int2Rat(p[1]), y |-> Int2Rat(p[2])], Zero, FALSE, TRUE, FALSE)

\* the float quotients us and uc of intersect
intersect_den(s1, s2, c1, c2) ==
    RSub(RMul(RSub(c2.y, c1.y), RSub(s2.x, s1.x)),
         RMul(RSub(c2.x, c1.x), RSub(s2.y, s1.y)))

intersect_us(s1, s2, c1, c2) ==
    RDiv(RSub(RMul(RSub(c2.x, c1.x), RSub(s1.y, c1.y)),
              RMul(RSub(c2.y, c1.y), RSub(s1.x, c1.x))),
         intersect_den(s1, s2, c1, c2))

intersect_uc(s1, s2, c1, c2) ==
    RDiv(RSub(RMul(RSub(s2.x, s1.x), RSub(s1.y, c1.y)),
              RMul(RSub(s2.y, s1.y), RSub(s1.x, c1.x))),
         intersect_den(s1, s2, c1, c2))

NoHit == [hit |-> FALSE, x |-> Zero, y |-> Zero, us |-> Zero, uc |-> Zero]

intersect_point(s1, s2, us, uc) ==
    [hit |-> TRUE,
     x |-> RAdd(s1.x, RMul(us, RSub(s2.x, s1.x))),
     y |-> RAdd(s1.y, RMul(us, RSub(s2.y, s1.y))),
     us |-> us, uc |-> uc]

\* intersect testing the subject edge against the whole line through the
\* clip edge: the range of uc is not looked at
intersect_line(s1, s2, c1, c2) ==
    IF intersect_den(s1, s2, c1, c2) = Zero THEN NoHit
    ELSE
      LET us == intersect_us(s1, s2, c1, c2)
          uc == intersect_uc(s1, s2, c1, c2)
      IN  IF RLt(Zero, us) /\ RLt(us, One)
          THEN intersect_point(s1, s2, us, uc)
          ELSE NoHit

\* intersect accepting crossings at the end points of the two edges
intersect_closed(s1, s2, c1, c2) ==
    IF intersect_den(s1, s2, c1, c2) = Zero THEN NoHit
    ELSE
      LET us == intersect_us(s1, s2, c1, c2)
          uc == intersect_uc(s1, s2, c1, c2)
      IN  IF RLe(Zero, us) /\ RLe(us, One) /\ RLe(Zero, uc) /\ RLe(uc, One)
          THEN intersect_point(s1, s2, us, uc)
          ELSE NoHit

\* intersect(s1, s2, c1, c2); the result None is NoHit
intersect(s1, s2, c1, c2) ==
    IF intersect_den(s1, s2, c1, c2) = Zero THEN NoHit
    ELSE
      LET us == intersect_us(s1, s2, c1, c2)
          uc == intersect_uc(s1, s2, c1, c2)
      IN  IF \/ (us = Zero \/ us = One) /\ RLe(Zero, uc) /\ RLe(uc, One)
             \/ (uc = Zero \/ uc = One) /\ RLe(Zero, us) /\ RLe(us, One)
          THEN NoHit
          ELSE IF /\ RLt(Zero, us) /\ RLt(us, One)
                  /\ RLt(Zero, uc) /\ RLt(uc, One)
          THEN intersect_point(s1, s2, us, uc)
          ELSE NoHit

-----------------------------------------------------------------------------
(* Polygon                                                                 *)

\* Polygon.add: h is the heap, f the polygon's first, v the vertex added.
\* The result is the new heap and the new first.
add(h, f, v) ==
    IF f = None
    THEN [vtx |-> [h EXCEPT ![v].next = v, ![v].prev = v], first |-> v]
    ELSE LET nxt == f
             prv == h[nxt].prev
             h1  == [h  EXCEPT ![nxt].prev = v]
             h2  == [h1 EXCEPT ![v].next = nxt]
             h3  == [h2 EXCEPT ![v].prev = prv]
             h4  == [h3 EXCEPT ![prv].next = v]
         IN  [vtx |-> h4, first |-> f]

\* insertCurr without the comparison of alphas: the vertex goes before end
insertCurr_end(h, curr, end, alpha) == end

\* Polygon.insert, the while loop: the node the vertex is spliced in before
RECURSIVE insertCurr(_, _, _, _)
insertCurr(h, curr, end, alpha) ==
    IF curr # end /\ RLt(h[curr].alpha, alpha)
    THEN insertCurr(h, h[curr].next, end, alpha)
    ELSE curr

\* insert without the last assignment `curr.prev = vertex`
insert_noBack(h, v, start, end) ==
    LET curr == insertCurr(h, start, end, h[v].alpha)
        h1   == [h  EXCEPT ![v].next = curr]
        prv  == h1[curr].prev
        h2   == [h1 EXCEPT ![v].prev = prv]
        h3   == [h2 EXCEPT ![prv].next = v]
    IN  h3

\* Polygon.insert
insert(h, v, start, end) ==
    LET curr == insertCurr(h, start, end, h[v].alpha)
        h1   == [h  EXCEPT ![v].next = curr]
        prv  == h1[curr].prev
        h2   == [h1 EXCEPT ![v].prev = prv]
        h3   == [h2 EXCEPT ![prv].next = v]
        h4   == [h3 EXCEPT ![curr].prev = v]
    IN  h4

\* Polygon.next
RECURSIVE poly_next(_, _)
poly_next(h, v) == IF h[v].intersect THEN poly_next(h, h[v].next) ELSE v

\* Polygon.iter: the vertices the generator yields, in order
RECURSIVE iterFrom(_, _, _)
iterFrom(h, f, v) ==
    IF h[v].next = f THEN <<v>> ELSE <<v>> \o iterFrom(h, f, h[v].next)

iter(h, f) == iterFrom(h, f, f)

\* Polygon.points
points(h, f) ==
    LET it == iter(h, f) IN [i \in 1..Len(it) |-> <<h[it[i]].x, h[it[i]].y>>]

\* Polygon.unprocessed
unprocessed(h, f) ==
    \E i \in 1..Len(iter(h, f)) :
        h[iter(h, f)[i]].intersect /\ ~h[iter(h, f)[i]].checked

\* Polygon.first_intersect: the value of v when the for loop is left
first_intersect(h, f) ==
    LET it   == iter(h, f)
        hits == {i \in 1..Len(it) : h[it[i]].intersect /\ ~h[it[i]].checked}
    IN  IF hits = {} THEN it[Len(it)]
        ELSE it[CHOOSE i \in hits : \A j \in hits : i <= j]

\* setChecked that marks the vertex only and leaves its neighbour alone
setChecked_selfOnly(h, v) == [h EXCEPT ![v].checked = TRUE]

\* Vertex.setChecked
RECURSIVE setChecked(_, _)
setChecked(h, v) ==
    LET h1 == [h EXCEPT ![v].checked = TRUE]
    IN  IF h1[v].neighbour # None /\ ~h1[h1[v].neighbour].checked
        THEN setChecked(h1, h1[v].neighbour)
        ELSE h1

\* Vertex.isInside: v is a vertex record, f the first of poly
isInside(h, v, f) ==
    LET infinity == [x |-> Int2Rat(1000000), y |-> v.y]
        it       == iter(h, f)
        crossed  == {i \in 1..Len(it) :
                        /\ ~h[it[i]].intersect
                        /\ intersect(v, infinity, h[it[i]],
                                     h[poly_next(h, h[it[i]].next)]).hit}
    IN  Cardinality(crossed) % 2 # 0


-----------------------------------------------------------------------------
(* Inputs of clip_polygon                                                  *)

MaxShift == 3

Square == << <<0, 0>>, <<2, 0>>, <<2, 2>>, <<0, 2>> >>
SquareCW == << <<0, 2>>, <<2, 2>>, <<2, 0>>, <<0, 0>> >>
Triangle == << <<0, 0>>, <<3, 1>>, <<1, 3>> >>
Dart == << <<0, 0>>, <<4, 1>>, <<2, 2>>, <<1, 4>> >>
HBar == << <<0, 1>>, <<3, 1>>, <<3, 2>>, <<0, 2>> >>
VBar == << <<1, 0>>, <<2, 0>>, <<2, 3>>, <<1, 3>> >>

Shapes == {Square, SquareCW, Triangle, Dart, HBar, VBar}

Shift(poly, dx, dy) ==
    [i \in 1..Len(poly) |-> <<poly[i][1] + dx, poly[i][2] + dy>>]

\* spoly and cpoly, the default polygons of the program, in tenths
spoly == << <<15, 13>>, <<75, 25>>, <<40, 30>>, <<45, 65>> >>
cpoly == << <<50, 45>>, <<30, 55>>, <<10, 40>>, <<15, 35>>,
            <<0, 20>>, <<30, 23>>, <<25, 10>>, <<55, 0>> >>

Inputs ==
    {<<a, Shift(b, dx, dy)>> :
        a \in Shapes, b \in Shapes, dx \in 0..MaxShift, dy \in 0..MaxShift}
    \cup {<<spoly, cpoly>>}

Operations == {"union", "intersection", "difference", "reversed-diff"}

-----------------------------------------------------------------------------
(* clip_polygon: construction of Subject and Clipper                       *)

\* the loop `for s in subject: Subject.add(Vertex(s))` from element i on
RECURSIVE addAll(_, _, _, _)
addAll(h, f, pts, i) ==
    IF i > Len(pts) THEN [vtx |-> h, first |-> f]
    ELSE LET r == add(Append(h, VertexOfPoint(pts[i])), f, Len(h) + 1)
         IN  addAll(r.vtx, r.first, pts, i + 1)

\* clip_polygon, the two loops: Subject is polygon 1, Clipper is polygon 2
Build(sub, cl) ==
    LET Subject == addAll(<< >>, None, sub, 1)
        Clipper == addAll(Subject.vtx, None, cl, 1)
    IN  [vtx |-> Clipper.vtx, first |-> <<Subject.first, Clipper.first>>]

\* clip_polygon up to the call of Polygon.clip through union, intersection
\* or difference, which choose s_entry and c_entry
clip_polygon(sub, cl, oper) ==
        /\ subject = sub
        /\ clipper = cl
        /\ operation = oper
        /\ vtx = Build(sub, cl).vtx
        /\ first = Build(sub, cl).first
        /\ self = IF oper = "reversed-diff" THEN 2 ELSE 1
        /\ clip = IF oper = "reversed-diff" THEN 1 ELSE 2
        /\ s_entry = (oper = "intersection")
        /\ c_entry = (oper # "union")
        /\ s = Build(sub, cl).first[IF oper = "reversed-diff" THEN 2 ELSE 1]
        /\ c = Build(sub, cl).first[IF oper = "reversed-diff" THEN 1 ELSE 2]
        /\ current = None
        /\ clipped = None
        /\ list = << >>
        /\ pc = "phase1"

Init == \E in \in Inputs, oper \in Operations : clip_polygon(in[1], in[2], oper)

-----------------------------------------------------------------------------
(* Polygon.clip, phase one                                                 *)

\* The two generators self.iter() and clip.iter() are resumed on the heap
\* h left by the loop body: c moves on, and when clip.iter() is exhausted
\* s moves on and a new clip.iter() starts.
AdvanceS(h) ==
    IF h[s].next = first[self]
    THEN /\ pc' = "phase2"
         /\ s' = first[self]
         /\ c' = first[clip]
    ELSE /\ pc' = "phase1"
         /\ s' = h[s].next
         /\ c' = first[clip]

AdvanceC(h) ==
    IF h[c].next = first[clip]
    THEN AdvanceS(h)
    ELSE /\ pc' = "phase1"
         /\ s' = s
         /\ c' = h[c].next

\* `if not s.intersect` fails: the inner loop is not run for this s
P1SkipS ==
    /\ pc = "phase1"
    /\ vtx[s].intersect
    /\ AdvanceS(vtx)
    /\ UNCHANGED <<subject, clipper, operation, vtx, first, self, clip,
                   s_entry, c_entry, current, clipped, list>>

\* `if not c.intersect` fails
P1SkipC ==
    /\ pc = "phase1"
    /\ ~vtx[s].intersect
    /\ vtx[c].intersect
    /\ AdvanceC(vtx)
    /\ UNCHANGED <<subject, clipper, operation, vtx, first, self, clip,
                   s_entry, c_entry, current, clipped, list>>

\* the call of intersect in the loop body
P1Test ==
    intersect(vtx[s], vtx[poly_next(vtx, vtx[s].next)],
              vtx[c], vtx[poly_next(vtx, vtx[c].next)])

\* intersect returned None: the TypeError is caught
P1Miss ==
    /\ pc = "phase1"
    /\ ~vtx[s].intersect
    /\ ~vtx[c].intersect
    /\ ~P1Test.hit
    /\ AdvanceC(vtx)
    /\ UNCHANGED <<subject, clipper, operation, vtx, first, self, clip,
                   s_entry, c_entry, current, clipped, list>>

\* P1Body without the back link `iC.neighbour = iS`
P1Body_oneWay(h, i) ==
    LET iS == Len(h) + 1
        iC == Len(h) + 2
        h1 == h \o << Vertex(i, i.us, TRUE, FALSE, FALSE),
                      Vertex(i, i.uc, TRUE, FALSE, FALSE) >>
        h2 == [h1 EXCEPT ![iS].neighbour = iC]
        h4 == insert(h2, iS, s, poly_next(h2, h2[s].next))
        h5 == insert(h4, iC, c, poly_next(h4, h4[c].next))
    IN  h5

\* the body of the try block: iS and iC are created, linked and inserted
P1Body(h, i) ==
    LET iS == Len(h) + 1
        iC == Len(h) + 2
        h1 == h \o << Vertex(i, i.us, TRUE, FALSE, FALSE),
                      Vertex(i, i.uc, TRUE, FALSE, FALSE) >>
        h2 == [h1 EXCEPT ![iS].neighbour = iC]
        h3 == [h2 EXCEPT ![iC].neighbour = iS]
        h4 == insert(h3, iS, s, poly_next(h3, h3[s].next))
        h5 == insert(h4, iC, c, poly_next(h4, h4[c].next))
    IN  h5

P1Cross ==
    /\ pc = "phase1"
    /\ ~vtx[s].intersect
    /\ ~vtx[c].intersect
    /\ P1Test.hit
    /\ vtx' = P1Body(vtx, P1Test)
    /\ AdvanceC(vtx')
    /\ UNCHANGED <<subject, clipper, operation, first, self, clip,
                   s_entry, c_entry, current, clipped, list>>

-----------------------------------------------------------------------------
(* Polygon.clip, phase two                                                 *)

\* P2InsideS without the exclusive or: s_entry keeps the operation's value
P2InsideS_plain ==
    /\ pc = "phase2"
    /\ s' = first[self]
    /\ pc' = "phase2s"
    /\ UNCHANGED <<subject, clipper, operation, vtx, first, self, clip,
                   s_entry, c_entry, c, current, clipped, list>>

\* s_entry ^= self.first.isInside(clip)
P2InsideS ==
    /\ pc = "phase2"
    /\ s_entry' = (s_entry # isInside(vtx, vtx[first[self]], first[clip]))
    /\ s' = first[self]
    /\ pc' = "phase2s"
    /\ UNCHANGED <<subject, clipper, operation, vtx, first, self, clip,
                   c_entry, c, current, clipped, list>>

\* one iteration of `for s in self.iter()`
P2LabelS ==
    /\ pc = "phase2s"
    /\ IF vtx[s].intersect
       THEN /\ vtx' = [vtx EXCEPT ![s].entry = s_entry]
            /\ s_entry' = ~s_entry
       ELSE UNCHANGED <<vtx, s_entry>>
    /\ IF vtx[s].next = first[self]
       THEN pc' = "phase2c" /\ s' = first[self]
       ELSE pc' = "phase2s" /\ s' = vtx[s].next
    /\ UNCHANGED <<subject, clipper, operation, first, self, clip,
                   c_entry, c, current, clipped, list>>

\* c_entry ^= clip.first.isInside(self)
P2InsideC ==
    /\ pc = "phase2c"
    /\ c_entry' = (c_entry # isInside(vtx, vtx[first[clip]], first[self]))
    /\ c' = first[clip]
    /\ pc' = "phase2cc"
    /\ UNCHANGED <<subject, clipper, operation, vtx, first, self, clip,
                   s_entry, s, current, clipped, list>>

\* one iteration of `for c in clip.iter()`
P2LabelC ==
    /\ pc = "phase2cc"
    /\ IF vtx[c].intersect
       THEN /\ vtx' = [vtx EXCEPT ![c].entry = c_entry]
            /\ c_entry' = ~c_entry
       ELSE UNCHANGED <<vtx, c_entry>>
    /\ IF vtx[c].next = first[clip]
       THEN pc' = "phase3" /\ c' = first[clip]
       ELSE pc' = "phase2cc" /\ c' = vtx[c].next
    /\ UNCHANGED <<subject, clipper, operation, first, self, clip,
                   s_entry, s, current, clipped, list>>

-----------------------------------------------------------------------------
(* Polygon.clip, phase three                                               *)

\* addCopy adding the vertex itself, `clipped.add(v)`, instead of a copy
addCopy_alias(h, fs, p, v) ==
    LET r == add(h, fs[p], v)
    IN  [vtx |-> r.vtx, first |-> [fs EXCEPT ![p] = r.first]]

\* clipped.add(Vertex(v)): the copy is allocated and added to polygon p
addCopy(h, fs, p, v) ==
    LET r == add(Append(h, VertexCopy(h[v])), fs[p], Len(h) + 1)
    IN  [vtx |-> r.vtx, first |-> [fs EXCEPT ![p] = r.first]]

\* `while self.unprocessed()` holds: a new clipped polygon is seeded
P3Seed ==
    /\ pc = "phase3"
    /\ unprocessed(vtx, first[self])
    /\ current' = first_intersect(vtx, first[self])
    /\ clipped' = Len(first) + 1
    /\ LET r == addCopy(vtx, Append(first, None), clipped', current')
       IN  vtx' = r.vtx /\ first' = r.first
    /\ pc' = "check"
    /\ UNCHANGED <<subject, clipper, operation, self, clip, s_entry,
                   c_entry, s, c, list>>

\* top of `while True`: current.setChecked() and the test of current.entry
P3Check ==
    /\ pc = "check"
    /\ vtx' = setChecked(vtx, current)
    /\ pc' = IF vtx[current].entry THEN "forward" ELSE "backward"
    /\ UNCHANGED <<subject, clipper, operation, first, self, clip, s_entry,
                   c_entry, s, c, current, clipped, list>>

\* one iteration of the loop over current.next
P3Forward ==
    /\ pc = "forward"
    /\ current' = vtx[current].next
    /\ LET r == addCopy(vtx, first, clipped, current')
       IN  vtx' = r.vtx /\ first' = r.first
    /\ pc' = IF vtx[current'].intersect THEN "jump" ELSE "forward"
    /\ UNCHANGED <<subject, clipper, operation, self, clip, s_entry,
                   c_entry, s, c, clipped, list>>

\* one iteration of the loop over current.prev
P3Backward ==
    /\ pc = "backward"
    /\ current' = vtx[current].prev
    /\ LET r == addCopy(vtx, first, clipped, current')
       IN  vtx' = r.vtx /\ first' = r.first
    /\ pc' = IF vtx[current'].intersect THEN "jump" ELSE "backward"
    /\ UNCHANGED <<subject, clipper, operation, self, clip, s_entry,
                   c_entry, s, c, clipped, list>>

\* current = current.neighbour; `if current.checked: break` and, after the
\* break, list.append(clipped)
P3Jump ==
    /\ pc = "jump"
    /\ current' = vtx[current].neighbour
    /\ IF vtx[current'].checked
       THEN list' = Append(list, clipped) /\ pc' = "phase3"
       ELSE list' = list /\ pc' = "check"
    /\ UNCHANGED <<subject, clipper, operation, vtx, first, self, clip,
                   s_entry, c_entry, s, c, clipped>>

\* P3Return without the fallback `if not list: list.append(self)`
P3Return_noFallback ==
    /\ pc = "phase3"
    /\ ~unprocessed(vtx, first[self])
    /\ pc' = "done"
    /\ UNCHANGED <<subject, clipper, operation, vtx, first, self, clip,
                   s_entry, c_entry, s, c, current, clipped, list>>

\* `while self.unprocessed()` fails: `if not list: list.append(self)`, return
P3Return ==
    /\ pc = "phase3"
    /\ ~unprocessed(vtx, first[self])
    /\ list' = IF list = << >> THEN Append(list, self) ELSE list
    /\ pc' = "done"
    /\ UNCHANGED <<subject, clipper, operation, vtx, first, self, clip,
                   s_entry, c_entry, s, c, current, clipped>>

Next ==
    \/ P1SkipS \/ P1SkipC \/ P1Miss \/ P1Cross
    \/ P2InsideS \/ P2LabelS \/ P2InsideC \/ P2LabelC
    \/ P3Seed \/ P3Check \/ P3Forward \/ P3Backward \/ P3Jump \/ P3Return

Spec == Init /\ [][Next]_vars

-----------------------------------------------------------------------------
(* Vocabulary of the properties                                            *)

\* the rings of the two polygons Polygon.clip works on
RingS == iter(vtx, first[self])
RingC == iter(vtx, first[clip])
Range(seq) == {seq[i] : i \in 1..Len(seq)}

\* the point lists the two polygons were built from
SelfInput == IF self = 1 THEN subject ELSE clipper
ClipInput == IF clip = 1 THEN subject ELSE clipper
AsPoints(pts) == [i \in 1..Len(pts) |-> <<Int2Rat(pts[i][1]), Int2Rat(pts[i][2])>>]

\* the points of the polygons in the returned list
Returned == [i \in 1..Len(list) |-> points(vtx, first[list[i]])]

\* the intersection vertices phase one has created so far
Intersections == {v \in 1..Len(vtx) : vtx[v].intersect}

\* nothing of the two polygons differs from what clip_polygon built
Unmodified ==
    /\ vtx = Build(subject, clipper).vtx
    /\ first = Build(subject, clipper).first

\* twice the signed area of the triangle o, a, b of integer points
Cross(o, a, b) ==
    (a[1] - o[1]) * (b[2] - o[2]) - (a[2] - o[2]) * (b[1] - o[1])

Succ(poly, i) == poly[(i % Len(poly)) + 1]

Convex(poly) ==
    /\ Len(poly) >= 3
    /\ \/ \A i \in 1..Len(poly) :
            Cross(poly[i], Succ(poly, i), Succ(poly, i + 1)) > 0
       \/ \A i \in 1..Len(poly) :
            Cross(poly[i], Succ(poly, i), Succ(poly, i + 1)) < 0

\* the line through edge i of p has p on one side and q on the other
SeparatedBy(p, i, q) ==
    \/ /\ \A j \in 1..Len(p) : Cross(p[i], Succ(p, i), p[j]) >= 0
       /\ \A j \in 1..Len(q) : Cross(p[i], Succ(p, i), q[j]) <= 0
    \/ /\ \A j \in 1..Len(p) : Cross(p[i], Succ(p, i), p[j]) <= 0
       /\ \A j \in 1..Len(q) : Cross(p[i], Succ(p, i), q[j]) >= 0

\* two convex polygons whose interiors are disjoint
ConvexNonOverlapping(p, q) ==
    /\ Convex(p)
    /\ Convex(q)
    /\ \/ \E i \in 1..Len(p) : SeparatedBy(p, i, q)
       \/ \E i \in 1..Len(q) : SeparatedBy(q, i, p)

\* the closed segments a-b and p-q of integer points have a common point
Sign(i) == IF i > 0 THEN 1 ELSE IF i < 0 THEN -1 ELSE 0
Between(a, b, p) ==
    /\ Cross(a, b, p) = 0
    /\ (p[1] - a[1]) * (p[1] - b[1]) <= 0
    /\ (p[2] - a[2]) * (p[2] - b[2]) <= 0
SegmentsMeet(a, b, p, q) ==
    \/ /\ Sign(Cross(a, b, p)) * Sign(Cross(a, b, q)) < 0
       /\ Sign(Cross(p, q, a)) * Sign(Cross(p, q, b)) < 0
    \/ Between(a, b, p) \/ Between(a, b, q)
    \/ Between(p, q, a) \/ Between(p, q, b)

\* a simple polygon: at least 3 vertices, edges that are not neighbours
\* have no common point, neighbours share their end point only
Simple(poly) ==
    /\ Len(poly) >= 3
    /\ \A i, j \in 1..Len(poly) :
          (i < j /\ j # i + 1 /\ ~(i = 1 /\ j = Len(poly)))
              => ~SegmentsMeet(poly[i], Succ(poly, i), poly[j], Succ(poly, j))
    /\ \A i \in 1..Len(poly) :
          /\ poly[i] # Succ(poly, i)
          /\ ~Between(poly[i], Succ(poly, i), Succ(poly, i + 1))
          /\ ~Between(Succ(poly, i), Succ(poly, i + 1), poly[i])

-----------------------------------------------------------------------------
(* C1 *)

\* C1: when phase one has found no intersection, clip returns a list of
\* exactly one polygon, the polygon clip was called on, and nothing of that
\* polygon has changed: same vertices in the same order, no intersection
\* vertex, no field of a vertex changed.
C1_NoIntersectionReturnsSubject ==
    (pc = "done" /\ Intersections = {}) =>
        /\ list = <<self>>
        /\ Unmodified
        /\ points(vtx, first[self]) = AsPoints(SelfInput)

C1_Witness ==
    /\ pc = "done"
    /\ Intersections = {}
    /\ list = <<self>>
    /\ operation = "union"

-----------------------------------------------------------------------------
(* C2 *)

\* C2 as claimed: for two convex polygons that do not overlap, intersection
\* returns an empty list, union returns the two polygons, and difference
\* returns A unchanged.
C2_Claimed ==
    (pc = "done" /\ ConvexNonOverlapping(subject, clipper)) =>
        /\ operation = "intersection" => list = << >>
        /\ operation = "union" =>
              Returned = <<AsPoints(subject), AsPoints(clipper)>>
        /\ operation \in {"difference", "reversed-diff"} =>
              list = <<self>> /\ Unmodified

\* C2 amended: for two convex polygons that do not overlap, intersection,
\* union and difference each return a list of exactly one polygon, the
\* polygon clip was called on, unchanged.
C2_NonOverlappingReturnsSubject ==
    (pc = "done" /\ ConvexNonOverlapping(subject, clipper)) =>
        /\ list = <<self>>
        /\ Unmodified
        /\ Returned = <<AsPoints(SelfInput)>>

C2_Witness ==
    /\ pc = "done"
    /\ ConvexNonOverlapping(subject, clipper)
    /\ operation = "intersection"
    /\ Returned = <<AsPoints(subject)>>

-----------------------------------------------------------------------------
(* C3 *)

\* C3: in every polygon assembled by phase three the last point is not a
\* second copy of the first point, the seed, and no point is appended twice
\* in a row.
C3_NoRepeatedPoint ==
    pc = "done" =>
        \A i \in 1..Len(list) :
            list[i] # self =>
                /\ Returned[i][Len(Returned[i])] # Returned[i][1]
                /\ \A j \in 1..(Len(Returned[i]) - 1) :
                      Returned[i][j] # Returned[i][j + 1]

-----------------------------------------------------------------------------
(* C4 *)

\* C4: the intersection of a simple polygon with a polygon built from the
\* same point list returns exactly one polygon, whose points are the points
\* of the input in the same order, and phase one has inserted no
\* intersection vertex.
C4_SelfClip ==
    (/\ pc = "done"
     /\ operation = "intersection"
     /\ Simple(subject)
     /\ clipper = subject) =>
        /\ Len(list) = 1
        /\ Returned[1] = AsPoints(subject)
        /\ Intersections = {}

C4_Witness ==
    /\ pc = "done"
    /\ operation = "intersection"
    /\ subject = Dart
    /\ clipper = subject
    /\ Returned = <<AsPoints(Dart)>>

-----------------------------------------------------------------------------
(* C5 *)

\* the assignments of entry flags are enumerated for rings with at most
\* MaxPairs pairs of intersection vertices
MaxPairs == 4

\* Phase three on the rings of phase one under every assignment of entry
\* flags: phase two is replaced by a step that gives each intersection
\* vertex an arbitrary entry flag.
AnyEntry ==
    /\ pc = "phase2"
    /\ Cardinality(Intersections) <= 2 * MaxPairs
    /\ \E e \in [Intersections -> BOOLEAN] :
          vtx' = [v \in 1..Len(vtx) |->
                    IF vtx[v].intersect
                    THEN [vtx[v] EXCEPT !.entry = e[v]]
                    ELSE vtx[v]]
    /\ pc' = "phase3"
    /\ UNCHANGED <<subject, clipper, operation, first, self, clip, s_entry,
                   c_entry, s, c, current, clipped, list>>

InitAnyEntry == \E in \in Inputs : clip_polygon(in[1], in[2], "difference")

NextAnyEntry ==
    \/ P1SkipS \/ P1SkipC \/ P1Miss \/ P1Cross
    \/ AnyEntry
    \/ P3Seed \/ P3Check \/ P3Forward \/ P3Backward \/ P3Jump \/ P3Return

PhaseThree ==
    P3Seed \/ P3Check \/ P3Forward \/ P3Backward \/ P3Jump \/ P3Return

\* the program is sequential: once in phase three it keeps taking the steps
\* of phase three until clip returns
SpecAnyEntry ==
    InitAnyEntry /\ [][NextAnyEntry]_vars /\ WF_vars(PhaseThree)

\* an iteration of the inner loop starts at an unchecked intersection
\* vertex; a walk has ended at an intersection vertex; at the return no
\* intersection vertex of either polygon is unchecked
InnerLoopInv ==
    /\ pc = "check" => vtx[current].intersect /\ ~vtx[current].checked
    /\ pc = "jump" => vtx[current].intersect
    /\ pc = "done" => \A v \in Intersections : vtx[v].checked

\* the step at the top of the inner loop marks the vertex and its neighbour
InnerLoopStep ==
    pc = "check" =>
        /\ vtx'[current].checked
        /\ vtx'[vtx[current].neighbour].checked

\* C5: phase three terminates for the rings of phases one and two under
\* any assignment of entry flags: every iteration of the inner loop starts
\* at an unchecked intersection vertex and marks it and its neighbour
\* checked, every walk reaches an intersection vertex, clip returns, and
\* then no intersection vertex of A or B is unchecked.
C5_PhaseThreeTerminates ==
    /\ []InnerLoopInv
    /\ [][InnerLoopStep]_vars
    /\ (pc \in {"forward", "backward"}) ~> (pc = "jump")
    /\ (pc = "phase3") ~> (pc = "done")

C5_Witness ==
    /\ pc = "done"
    /\ Len(list) >= 2
    /\ Cardinality(Intersections) >= 8
    /\ \A v \in Intersections : vtx[v].checked
    /\ \E v, w \in Range(RingS) \cap Intersections :
          vtx[v].next = w /\ vtx[v].entry /\ vtx[w].entry

-----------------------------------------------------------------------------
(* C6 *)

\* every intersection vertex of ring a has a neighbour, which is an
\* intersection vertex of ring b at the same coordinates linked back to it
PairedIn(a, b) ==
    \A v \in Range(a) :
        vtx[v].intersect =>
            /\ vtx[v].neighbour # None
            /\ vtx[v].neighbour \in Range(b)
            /\ vtx[vtx[v].neighbour].intersect
            /\ vtx[vtx[v].neighbour].x = vtx[v].x
            /\ vtx[vtx[v].neighbour].y = vtx[v].y
            /\ vtx[vtx[v].neighbour].neighbour = v

\* C6: after phase one the intersection vertices exist in mutually linked
\* pairs, one vertex in each polygon, at the same coordinates; the two rings
\* hold the same number of them and no original vertex has a neighbour.
C6_IntersectionsPaired ==
    pc # "phase1" =>
        /\ PairedIn(RingS, RingC)
        /\ PairedIn(RingC, RingS)
        /\ Cardinality(Range(RingS) \cap Intersections)
              = Cardinality(Range(RingC) \cap Intersections)
        /\ \A v \in Range(RingS) \cup Range(RingC) :
              ~vtx[v].intersect => vtx[v].neighbour = None

C6_Witness ==
    /\ pc = "phase2"
    /\ Cardinality(Range(RingS) \cap Intersections) >= 4
    /\ PairedIn(RingS, RingC)

-----------------------------------------------------------------------------
(* C7 *)

IsOriginal(v) == ~vtx[v].intersect
Originals(ring) == SelectSeq(ring, IsOriginal)

\* the original vertex that starts the edge ring[i] lies on
EdgeStart(ring, i) ==
    ring[CHOOSE j \in 1..(i - 1) :
            /\ ~vtx[ring[j]].intersect
            /\ \A k \in (j + 1)..(i - 1) : vtx[ring[k]].intersect]

\* vertex v lies on the edge from a to b at the parameter v.alpha
OnEdge(v, a, b) ==
    /\ RLt(Zero, vtx[v].alpha) /\ RLt(vtx[v].alpha, One)
    /\ vtx[v].x = RAdd(vtx[a].x, RMul(vtx[v].alpha, RSub(vtx[b].x, vtx[a].x)))
    /\ vtx[v].y = RAdd(vtx[a].y, RMul(vtx[v].alpha, RSub(vtx[b].y, vtx[a].y)))

SortedEdges(ring) ==
    \A i \in 1..Len(ring) :
        vtx[ring[i]].intersect =>
            /\ i > 1
            /\ OnEdge(ring[i], EdgeStart(ring, i), poly_next(vtx, ring[i]))
            /\ vtx[vtx[ring[i]].next].intersect =>
                  RLe(vtx[ring[i]].alpha, vtx[vtx[ring[i]].next].alpha)

\* C7: after any number of phase-one insertions, in each polygon the
\* intersection vertices between two consecutive original vertices lie on
\* that original edge and follow each other, along next, in ascending order
\* of alpha; the original vertices keep their order.
C7_SortedByAlpha ==
    /\ SortedEdges(RingS)
    /\ SortedEdges(RingC)
    /\ Originals(RingS) = iter(Build(subject, clipper).vtx, first[self])
    /\ Originals(RingC) = iter(Build(subject, clipper).vtx, first[clip])

\* an edge holds two intersection vertices of which the one created later
\* comes first, and another edge two of which the one created later comes last
C7_Witness ==
    /\ \E v \in Intersections :
          vtx[vtx[v].next].intersect /\ v > vtx[v].next
    /\ \E v \in Intersections :
          vtx[vtx[v].next].intersect /\ v < vtx[v].next

-----------------------------------------------------------------------------
(* C8 *)

AfterPhase2 == {"phase3", "check", "forward", "backward", "jump", "done"}

IsIntersection(v) == vtx[v].intersect
IntersectionsOf(ring) == SelectSeq(ring, IsIntersection)

Alternating(ring, entry0) ==
    LET I == IntersectionsOf(ring)
    IN  /\ Len(I) > 0 => vtx[I[1]].entry = entry0
        /\ \A i \in 1..(Len(I) - 1) : vtx[I[i]].entry # vtx[I[i + 1]].entry

\* C8: after phase two the entry flags of the intersection vertices of each
\* polygon alternate in traversal order, starting for A with
\* sEntry XOR inside(A.first, B) and for B with cEntry XOR inside(B.first, A),
\* where union is (false, false), intersection (true, true) and difference
\* (false, true); the entry flag of no original vertex has changed.
C8_EntryFlagsAlternate ==
    pc \in AfterPhase2 =>
        /\ Alternating(RingS, (operation = "intersection")
                                # isInside(vtx, vtx[first[self]], first[clip]))
        /\ Alternating(RingC, (operation # "union")
                                # isInside(vtx, vtx[first[clip]], first[self]))
        /\ \A v \in Range(RingS) \cup Range(RingC) :
              ~vtx[v].intersect => vtx[v].entry = Build(subject, clipper).vtx[v].entry

C8_Witness ==
    /\ pc = "phase3"
    /\ Len(IntersectionsOf(RingS)) >= 2
    /\ Len(IntersectionsOf(RingC)) >= 2
    /\ isInside(vtx, vtx[first[self]], first[clip])
    /\ vtx[IntersectionsOf(RingS)[1]].entry
    /\ operation = "difference"

-----------------------------------------------------------------------------
(* C9 *)

FirstUnchecked(ring) ==
    LET hits == {i \in 1..Len(ring) :
                    vtx[ring[i]].intersect /\ ~vtx[ring[i]].checked}
    IN  IF hits = {} THEN None
        ELSE ring[CHOOSE i \in hits : \A j \in hits : i <= j]

\* C9: first_intersect returns the first vertex in traversal order that is
\* an intersection vertex and not checked, and no vertex when the polygon
\* has none; it returns a vertex exactly when unprocessed is true.
C9_FirstIntersect ==
    \A p \in {self, clip} :
        /\ first_intersect(vtx, first[p]) = FirstUnchecked(iter(vtx, first[p]))
        /\ (first_intersect(vtx, first[p]) # None) <=> unprocessed(vtx, first[p])

-----------------------------------------------------------------------------
(* C10 *)

Phase3 == {"phase3", "check", "forward", "backward", "jump"}

InputVertices == Range(RingS) \cup Range(RingC)

\* a step leaves every field of input vertex v alone, except that checked
\* may go from false to true on an intersection vertex
OnlyChecked(v) ==
    /\ vtx'[v] = [vtx[v] EXCEPT !.checked = vtx'[v].checked]
    /\ vtx[v].checked => vtx'[v].checked
    /\ vtx'[v].checked # vtx[v].checked => vtx[v].intersect

\* the vertices of every clipped polygon are vertices created after the
\* vertices of the two input rings, and none is a node of an input ring
ResultsFresh ==
    \A p \in 3..Len(first) :
        first[p] # None =>
            \A v \in Range(iter(vtx, first[p])) :
                v \notin InputVertices /\ v > Cardinality(InputVertices)

\* a step taken inside phase three
PhaseThreeStep ==
    pc \in Phase3 =>
        /\ \A v \in InputVertices : OnlyChecked(v)
        /\ first'[self] = first[self]
        /\ first'[clip] = first[clip]
        /\ ResultsFresh'

\* C10: phase three changes no link, coordinate, alpha, intersection flag
\* or entry flag of a vertex of the two input rings; it writes only checked,
\* from false to true and on intersection vertices only; every vertex of a
\* polygon it assembles is a new vertex that is in neither input ring.
C10_PhaseThreeReadsInputs == [][PhaseThreeStep]_vars

C10_Witness ==
    /\ pc = "done"
    /\ Len(list) >= 2
    /\ ResultsFresh
    /\ \E v \in InputVertices : vtx[v].checked

-----------------------------------------------------------------------------
(* C11 *)

\* The container alone: one Polygon object, polygon 1, on which add is
\* called up to MaxAdd times and then insert up to MaxInsert times.  The
\* vertex inserted is an intersection vertex whose alpha is one of the
\* fractions k / AlphaDen, 0 and 1 included; start and end are two
\* consecutive original vertices, end found as Polygon.clip finds it.
MaxAdd == 3
MaxInsert == 3
AlphaDen == 2

Alphas == {Rat(k, AlphaDen) : k \in 0..AlphaDen}

InitRing ==
    /\ subject = << >>
    /\ clipper = << >>
    /\ operation = "none"
    /\ vtx = << >>
    /\ first = <<None>>
    /\ self = 1
    /\ clip = 1
    /\ s_entry = FALSE
    /\ c_entry = FALSE
    /\ s = None
    /\ c = None
    /\ current = None
    /\ clipped = None
    /\ list = << >>
    /\ pc = "add"

\* polygon.add(Vertex(p)) on polygon 1
RingAdd ==
    /\ pc = "add"
    /\ Len(vtx) < MaxAdd
    /\ LET r == add(Append(vtx, VertexOfPoint(<<Len(vtx), 0>>)),
                    first[1], Len(vtx) + 1)
       IN  vtx' = r.vtx /\ first' = [first EXCEPT ![1] = r.first]
    /\ UNCHANGED <<subject, clipper, operation, self, clip, s_entry,
                   c_entry, s, c, current, clipped, list, pc>>

\* polygon.insert(v, start, polygon.next(start.next)) on polygon 1, for a
\* new intersection vertex v and an original vertex start
RingInsert ==
    /\ pc \in {"add", "insert"}
    /\ first[1] # None
    /\ Cardinality(Intersections) < MaxInsert
    /\ \E start \in 1..Len(vtx), alpha \in Alphas :
          /\ ~vtx[start].intersect
          /\ LET h == Append(vtx, Vertex([x |-> Zero, y |-> Zero],
                                         alpha, TRUE, FALSE, FALSE))
             IN  vtx' = insert(h, Len(h), start,
                               poly_next(h, h[start].next))
    /\ pc' = "insert"
    /\ UNCHANGED <<subject, clipper, operation, first, self, clip, s_entry,
                   c_entry, s, c, current, clipped, list>>

NextRing == RingAdd \/ RingInsert

SpecRing == InitRing /\ [][NextRing]_vars

\* the vertex reached from v by k steps along next
RECURSIVE NthNext(_, _)
NthNext(v, k) == IF k = 0 THEN v ELSE vtx[NthNext(v, k - 1)].next

\* the walk of Len(vtx) vertices along next that starts at the anchor
AnchorWalk == [k \in 1..Len(vtx) |-> NthNext(first[1], k - 1)]

\* C11: after any adds followed by any inserts between two consecutive
\* original vertices, every vertex v of the ring has v.next.prev = v and
\* v.prev.next = v; iter is finite, starts at the anchor and visits every
\* added or inserted vertex exactly once; the anchor is still the first
\* vertex added and is not an intersection vertex.
C11_RingWellFormed ==
    first[1] # None =>
        /\ \A v \in 1..Len(vtx) :
              /\ vtx[v].next \in 1..Len(vtx)
              /\ vtx[v].prev \in 1..Len(vtx)
              /\ vtx[vtx[v].next].prev = v
              /\ vtx[vtx[v].prev].next = v
        /\ Range(AnchorWalk) = 1..Len(vtx)
        /\ vtx[AnchorWalk[Len(vtx)]].next = first[1]
        /\ iter(vtx, first[1]) = AnchorWalk
        /\ first[1] = 1
        /\ ~vtx[first[1]].intersect

\* three vertices were added and three inserted, one of them on the closing
\* edge, right before the anchor
C11_Witness ==
    /\ pc = "insert"
    /\ Len(vtx) = MaxAdd + MaxInsert
    /\ vtx[vtx[first[1]].prev].intersect
    /\ \E v \in Intersections : vtx[vtx[v].next].intersect
    /\ \E v \in Intersections : ~vtx[vtx[v].next].intersect /\ vtx[v].next # 1
    /\ iter(vtx, first[1])[1] = 1

=============================================================================
